---- MODULE Spec2Model ----
(***************************************************************************)
(* Token Calculator API: the pricing loader, the tokenizer dispatcher, the *)
(* estimation service and the routes in front of them.                     *)
(*                                                                         *)
(* Conventions.                                                            *)
(*   - An Optional value is None (<<>>) or Some(v) (<<v>>).                *)
(*   - A pricing table (a Python dict) is a sequence of rows               *)
(*     [name, config] with distinct names, in insertion order.             *)
(*   - Money is exact decimal arithmetic.  A rate is held in hundredths of *)
(*     a dollar per 1000 tokens; a cost is held in units of 1/PerK of a    *)
(*     rate unit, so that (tokens / 1000) * rate is tokens * rate, and a   *)
(*     product that is not divided by 1000 is scaled by PerK.  The         *)
(*     rounding of IEEE doubles is not modelled.                           *)
(***************************************************************************)
EXTENDS Integers, Sequences, FiniteSets, TLC

VARIABLES
    phase,            \* lifespan: "created", "running" or "failed"
    pricing_url,      \* settings.pricing_url is set (TRUE) or None (FALSE)
    vocabs,           \* the tiktoken vocabularies that can be loaded
    pricing_data,     \* pricing_loader.pricing_data
    pricing_configs,  \* estimation_service.pricing_configs
    tokenizers,       \* tokenizer_factory._tokenizers
    refresh,          \* the refresh handler: "idle", or "awaiting" the fetch
    response,         \* the last response a handler returned
    last_loaded,      \* history: the table of the most recent successful load
    off_snapshot      \* history: tables read during a refresh that were not
                      \* the published table at the time of the read

vars == <<phase, pricing_url, vocabs, pricing_data, pricing_configs,
          tokenizers, refresh, response, last_loaded, off_snapshot>>

----------------------------------------------------------------------------
(* Bounds *)

MaxSourceLen == 2
MaxTableLen == 2
MaxBatch == 2
MaxTextLen == 8

(* Program constants *)

PerK == 1000                  \* tokens per priced unit: (tokens / 1000) * rate
LlamaRatioNum == 7            \* chars_per_token = 3.5 = 7 / 2
LlamaRatioDen == 2
AnthropicCharsPerToken == 4   \* the Anthropic family's characters per token

----------------------------------------------------------------------------
(* Optional values and dict-like tables *)

None == <<>>
Some(v) == <<v>>
IsSome(o) == o # None
Val(o) == o[1]

Names(table) == {table[i].name : i \in DOMAIN table}

DistinctNames(table) ==
    \A i, j \in DOMAIN table : table[i].name = table[j].name => i = j

\* dict.get(name): the config stored under name, or None
Get(table, name) ==
    IF name \in Names(table)
    THEN Some((CHOOSE row \in {table[i] : i \in DOMAIN table} : row.name = name).config)
    ELSE None

----------------------------------------------------------------------------
(* Pricing loader: validation of one source record *)

RequiredFields == {"vendor", "input_per_1k", "tokenizer", "kind"}

Field(raw, f) == IF f \in DOMAIN raw THEN Some(raw[f]) ELSE None

NegativeRate(o) == IsSome(o) /\ Val(o) < 0

\* PricingConfig(**config_data): the validated config, or a validation error
PricingConfig(raw) ==
    IF \E f \in RequiredFields : f \notin DOMAIN raw
    THEN [ok |-> FALSE, error |-> "Field required"]
    ELSE IF NegativeRate(Field(raw, "input_per_1k"))
            \/ NegativeRate(Field(raw, "output_per_1k"))
    THEN [ok |-> FALSE, error |-> "Cost must be non-negative"]
    ELSE [ok |-> TRUE,
          config |-> [vendor        |-> raw.vendor,
                      context       |-> Field(raw, "context"),
                      input_per_1k  |-> raw.input_per_1k,
                      output_per_1k |-> Field(raw, "output_per_1k"),
                      tokenizer     |-> raw.tokenizer,
                      kind          |-> raw.kind]]

\* The loop of _validate_and_store from record i on: the dict built off to
\* the side, or the ValueError raised at the first invalid record.
RECURSIVE ValidateLoop(_, _, _)
ValidateLoop(data, i, validated_data) ==
    IF i > Len(data)
    THEN [ok |-> TRUE, validated_data |-> validated_data]
    ELSE LET v == PricingConfig(data[i].config)
         IN  IF v.ok
             THEN ValidateLoop(data, i + 1,
                      Append(validated_data,
                             [name |-> data[i].name, config |-> v.config]))
             ELSE [ok |-> FALSE,
                   error |-> [type |-> "ValueError",
                              message |-> "Invalid pricing config for",
                              model |-> data[i].name,
                              cause |-> v.error]]

\* A loop that stores each validated record straight into the live table.
RECURSIVE StoreInPlaceLoop(_, _, _)
StoreInPlaceLoop(data, i, live) ==
    IF i > Len(data)
    THEN [ok |-> TRUE, pricing_data |-> live]
    ELSE LET v == PricingConfig(data[i].config)
             row == [name |-> data[i].name, config |-> v.config]
             kept == SelectSeq(live, LAMBDA r : r.name # data[i].name)
         IN  IF v.ok
             THEN StoreInPlaceLoop(data, i + 1, Append(kept, row))
             ELSE [ok |-> FALSE,
                   pricing_data |-> live,
                   error |-> [type |-> "ValueError",
                              message |-> "Invalid pricing config for",
                              model |-> data[i].name,
                              cause |-> v.error]]

ValidateAndStoreInPlace(current, data) == StoreInPlaceLoop(data, 1, current)

\* PricingLoader._validate_and_store(data) with self.pricing_data = current:
\* the table afterwards, and the error raised if any.
ValidateAndStore(current, data) ==
    LET r == ValidateLoop(data, 1, <<>>)
    IN  IF r.ok
        THEN [ok |-> TRUE, pricing_data |-> r.validated_data]
        ELSE [ok |-> FALSE, pricing_data |-> current, error |-> r.error]

----------------------------------------------------------------------------
(* Tokenizer strategies *)

\* Texts that tiktoken's encode() rejects (text spelling a special token).
Unencodable == {"<|endoftext|>"}

\* tiktoken.get_encoding(vocab).encode(text): the number of tokens, or an
\* exception.  The merge tables are not part of the repository: the
\* encoder is represented by a deterministic count that is positive on
\* non-empty text and differs between the two vocabularies.
Encode(vocab, text) ==
    IF text \in Unencodable
    THEN [ok |-> FALSE]
    ELSE [ok |-> TRUE,
          len |-> IF vocab = "o200k_base"
                  THEN (Len(text) + 4) \div 5
                  ELSE (Len(text) + 3) \div 4]

Max(a, b) == IF a >= b THEN a ELSE b

\* encoding_map.get(encoding_name, "cl100k_base")
EncodingMap(encoding_name) ==
    IF encoding_name \in {"o200k_base", "cl100k_base"}
    THEN encoding_name
    ELSE "cl100k_base"

\* OpenAITokenizer(encoding_name), when the vocabularies in avail can be
\* loaded: the instance, or the ValueError of the constructor.
OpenAITokenizer(encoding_name, avail) ==
    IF EncodingMap(encoding_name) \in avail
    THEN [ok |-> TRUE,
          tokenizer |-> [class |-> "OpenAITokenizer",
                         encoding_name |-> encoding_name,
                         encoding |-> EncodingMap(encoding_name)]]
    ELSE IF "cl100k_base" \in avail
    THEN [ok |-> TRUE,
          tokenizer |-> [class |-> "OpenAITokenizer",
                         encoding_name |-> encoding_name,
                         encoding |-> "cl100k_base"]]
    ELSE [ok |-> FALSE,
          error |-> [type |-> "ValueError",
                     message |-> "Failed to load tiktoken encoding",
                     model |-> encoding_name]]

\* OpenAITokenizer.count_tokens(text)
OpenAICountTokens(tokenizer, text) ==
    IF text = ""
    THEN [ok |-> TRUE, tokens |-> 0, approx |-> FALSE]
    ELSE LET e == Encode(tokenizer.encoding, text)
         IN  IF e.ok
             THEN [ok |-> TRUE, tokens |-> e.len, approx |-> FALSE]
             ELSE [ok |-> FALSE,
                   error |-> [type |-> "ValueError",
                              message |-> "Tokenization failed",
                              model |-> tokenizer.encoding_name]]

\* A count without the minimum of one token for non-empty text.
LlamaCountTokensUnclamped(text) ==
    IF text = ""
    THEN [ok |-> TRUE, tokens |-> 0, approx |-> TRUE]
    ELSE [ok |-> TRUE,
          tokens |-> (Len(text) * LlamaRatioDen) \div LlamaRatioNum,
          approx |-> TRUE]

\* LlamaTokenizer.count_tokens(text): int(len(text) / 3.5), at least 1
LlamaCountTokens(text) ==
    IF text = ""
    THEN [ok |-> TRUE, tokens |-> 0, approx |-> TRUE]
    ELSE [ok |-> TRUE,
          tokens |-> Max(1, (Len(text) * LlamaRatioDen) \div LlamaRatioNum),
          approx |-> TRUE]

\* AnthropicTokenizer.count_tokens(text): the approximate strategy of the
\* Anthropic family, max(1, floor(charCount / ratio)).
AnthropicCountTokens(text) ==
    IF text = ""
    THEN [ok |-> TRUE, tokens |-> 0, approx |-> TRUE]
    ELSE [ok |-> TRUE,
          tokens |-> Max(1, Len(text) \div AnthropicCharsPerToken),
          approx |-> TRUE]

\* tokenizer.count_tokens(text), by the class of the instance
TokenizerCountTokens(tokenizer, text) ==
    CASE tokenizer.class = "OpenAITokenizer" -> OpenAICountTokens(tokenizer, text)
      [] tokenizer.class = "AnthropicTokenizer" -> AnthropicCountTokens(text)
      [] tokenizer.class = "LlamaTokenizer" -> LlamaCountTokens(text)

----------------------------------------------------------------------------
(* Tokenizer dispatcher (TokenizerFactory) *)

\* The tokenizer names of the model, and str.startswith / str.endswith on them
TokenizerNames ==
    {"o200k_base", "cl100k_base", "anthropic_approx_bpe", "llama_approx_bpe"}

StartsWithO(name) == name \in {"o200k_base", "o1_base"}
EndsWithBase(name) == name \in {"o200k_base", "cl100k_base", "o1_base"}

\* TokenizerFactory._create_tokenizer(tokenizer_name)
CreateTokenizer(tokenizer_name, avail) ==
    IF StartsWithO(tokenizer_name) /\ EndsWithBase(tokenizer_name)
    THEN OpenAITokenizer(tokenizer_name, avail)
    ELSE IF tokenizer_name = "cl100k_base"
    THEN OpenAITokenizer(tokenizer_name, avail)
    ELSE IF tokenizer_name = "anthropic_approx_bpe"
    THEN [ok |-> TRUE, tokenizer |-> [class |-> "AnthropicTokenizer"]]
    ELSE IF tokenizer_name = "llama_approx_bpe"
    THEN [ok |-> TRUE, tokenizer |-> [class |-> "LlamaTokenizer"]]
    ELSE OpenAITokenizer("cl100k_base", avail)

\* A lookup that returns whatever instance is cached, under any name.
GetTokenizerAnyCached(cache, tokenizer_name, avail) ==
    IF DOMAIN cache # {}
    THEN [ok |-> TRUE,
          tokenizer |-> cache[CHOOSE name \in DOMAIN cache : TRUE],
          cache |-> cache]
    ELSE LET c == CreateTokenizer(tokenizer_name, avail)
         IN  IF c.ok
             THEN [ok |-> TRUE, tokenizer |-> c.tokenizer,
                   cache |-> (tokenizer_name :> c.tokenizer) @@ cache]
             ELSE [ok |-> FALSE, error |-> c.error, cache |-> cache]

\* A lookup that creates the instance and does not store it.
GetTokenizerNotStored(cache, tokenizer_name, avail) ==
    IF tokenizer_name \in DOMAIN cache
    THEN [ok |-> TRUE, tokenizer |-> cache[tokenizer_name], cache |-> cache]
    ELSE LET c == CreateTokenizer(tokenizer_name, avail)
         IN  IF c.ok
             THEN [ok |-> TRUE, tokenizer |-> c.tokenizer, cache |-> cache]
             ELSE [ok |-> FALSE, error |-> c.error, cache |-> cache]

\* TokenizerFactory.get_tokenizer(tokenizer_name) with _tokenizers = cache:
\* the instance and the cache afterwards, or the error (cache untouched).
GetTokenizer(cache, tokenizer_name, avail) ==
    IF tokenizer_name \in DOMAIN cache
    THEN [ok |-> TRUE, tokenizer |-> cache[tokenizer_name], cache |-> cache]
    ELSE LET c == CreateTokenizer(tokenizer_name, avail)
         IN  IF c.ok
             THEN [ok |-> TRUE, tokenizer |-> c.tokenizer,
                   cache |-> (tokenizer_name :> c.tokenizer) @@ cache]
             ELSE [ok |-> FALSE, error |-> c.error, cache |-> cache]

\* TokenizerFactory.count_tokens(text, tokenizer_name)
FactoryCountTokens(cache, text, tokenizer_name, avail) ==
    LET g == GetTokenizer(cache, tokenizer_name, avail)
    IN  IF ~g.ok
        THEN [ok |-> FALSE, error |-> g.error, cache |-> cache]
        ELSE LET c == TokenizerCountTokens(g.tokenizer, text)
             IN  IF c.ok
                 THEN [ok |-> TRUE, tokens |-> c.tokens, approx |-> c.approx,
                       cache |-> g.cache]
                 ELSE [ok |-> FALSE, error |-> c.error, cache |-> g.cache]

----------------------------------------------------------------------------
(* Estimation service *)

\* Python truthiness of an Optional[str]: neither None nor ""
Truthy(text) == IsSome(text) /\ Val(text) # ""

\* The three optional text fields, in the order the service counts them
TextFields(request) == <<request.system, request.user, request.tools_json>>

\* EstimationService._count_input_tokens from field i on: the running
\* total, the dispatcher calls made (text, tokenizer name) and the cache, or
\* the error of the first call that raises.
RECURSIVE CountFields(_, _, _, _, _, _, _)
CountFields(fields, i, total_tokens, calls, cache, tokenizer_name, avail) ==
    IF i > Len(fields)
    THEN [ok |-> TRUE, total_tokens |-> total_tokens, calls |-> calls,
          cache |-> cache]
    ELSE IF ~Truthy(fields[i])
    THEN CountFields(fields, i + 1, total_tokens, calls, cache,
                     tokenizer_name, avail)
    ELSE LET c == FactoryCountTokens(cache, Val(fields[i]), tokenizer_name, avail)
             made == Append(calls, <<Val(fields[i]), tokenizer_name>>)
         IN  IF c.ok
             THEN CountFields(fields, i + 1, total_tokens + c.tokens, made,
                              c.cache, tokenizer_name, avail)
             ELSE [ok |-> FALSE, error |-> c.error, calls |-> made,
                   cache |-> c.cache]

\* A count that leaves the tools text out of the sum.
CountInputTokensNoTools(request, tokenizer_name, cache, avail) ==
    CountFields(<<request.system, request.user>>, 1, 0, <<>>, cache,
                tokenizer_name, avail)

\* EstimationService._count_input_tokens(request, tokenizer_name)
CountInputTokens(request, tokenizer_name, cache, avail) ==
    CountFields(TextFields(request), 1, 0, <<>>, cache, tokenizer_name, avail)

\* A search that takes the first embedding entry of any vendor.
RECURSIVE FindAnyEmbeddingModel(_, _, _)
FindAnyEmbeddingModel(table, i, vendor) ==
    IF i > Len(table)
    THEN None
    ELSE IF table[i].config.kind = "embedding"
    THEN Some(table[i].config)
    ELSE FindAnyEmbeddingModel(table, i + 1, vendor)

\* The loop of _calculate_costs over self.pricing_configs.items(): the
\* first entry of kind "embedding" with the primary entry's vendor, or None
RECURSIVE FindEmbeddingModel(_, _, _)
FindEmbeddingModel(table, i, vendor) ==
    IF i > Len(table)
    THEN None
    ELSE IF table[i].config.kind = "embedding" /\ table[i].config.vendor = vendor
    THEN Some(table[i].config)
    ELSE FindEmbeddingModel(table, i + 1, vendor)

\* The embedding cost of _calculate_costs
EmbeddingCost(table, pricing_config, rag_config) ==
    IF IsSome(rag_config) /\ Val(rag_config).embedding_tokens > 0
    THEN LET embedding_model == FindEmbeddingModel(table, 1, pricing_config.vendor)
         IN  IF IsSome(embedding_model)
             THEN Val(rag_config).embedding_tokens * Val(embedding_model).input_per_1k
             ELSE 0
    ELSE 0

\* A vector I/O cost that treats the fee as a price per 1000 vectors.
VectorIoCostPerThousand(rag_config) ==
    IF IsSome(rag_config) /\ Val(rag_config).num_vectors_read > 0
    THEN Val(rag_config).num_vectors_read
             * Val(rag_config).vector_read_fee_per_1k
    ELSE 0

\* The vector I/O cost of _calculate_costs: a flat fee per vector read
VectorIoCost(rag_config) ==
    IF IsSome(rag_config) /\ Val(rag_config).num_vectors_read > 0
    THEN Val(rag_config).num_vectors_read
             * Val(rag_config).vector_read_fee_per_1k * PerK
    ELSE 0

\* A cost calculation that prices the output tokens at the input rate.
CalculateCostsInputRate(table, input_tokens, output_tokens, pricing_config, rag_config) ==
    [model_input_cost  |-> input_tokens * pricing_config.input_per_1k,
     model_output_cost |-> output_tokens * pricing_config.input_per_1k,
     embedding_cost    |-> EmbeddingCost(table, pricing_config, rag_config),
     vector_io_cost    |-> VectorIoCost(rag_config)]

\* EstimationService._calculate_costs
CalculateCosts(table, input_tokens, output_tokens, pricing_config, rag_config) ==
    [model_input_cost  |-> input_tokens * pricing_config.input_per_1k,
     model_output_cost |->
         IF IsSome(pricing_config.output_per_1k)
            /\ Val(pricing_config.output_per_1k) # 0
         THEN output_tokens * Val(pricing_config.output_per_1k)
         ELSE 0,
     embedding_cost    |-> EmbeddingCost(table, pricing_config, rag_config),
     vector_io_cost    |-> VectorIoCost(rag_config)]

\* Python truthiness of an Optional[int]: neither None nor 0
HasLimit(context_limit) == IsSome(context_limit) /\ Val(context_limit) # 0

\* (total_tokens / context_limit) * 100, as an exact fraction
UtilizationPct(total_tokens, context_limit) ==
    [num |-> total_tokens * 100, den |-> context_limit]

\* pct >= n, for a fraction with a non-zero denominator
PctAtLeast(pct, n) ==
    IF pct.den > 0 THEN pct.num >= n * pct.den ELSE pct.num <= n * pct.den

\* Warnings that need the utilization to be above 90%, not at 90%.
GenerateWarningsAbove(input_tokens, output_tokens, context_limit, tokenizer_name, cache, avail) ==
    LET pct == UtilizationPct(input_tokens + output_tokens, Val(context_limit))
        context_warning ==
            IF HasLimit(context_limit) /\ PctAtLeast(pct, 90)
               /\ pct.num # 90 * pct.den
            THEN <<[kind |-> "High context utilization", pct |-> pct,
                    limit |-> Val(context_limit)]>>
            ELSE <<>>
        c == FactoryCountTokens(cache, "test", tokenizer_name, avail)
    IN  IF ~c.ok
        THEN [ok |-> FALSE, error |-> c.error, cache |-> c.cache]
        ELSE [ok |-> TRUE,
              warnings |-> context_warning \o
                  (IF c.approx
                   THEN <<[kind |-> "Tokenizer uses approximation",
                           name |-> tokenizer_name]>>
                   ELSE <<>>),
              cache |-> c.cache]

\* Warnings with the approximation warning put before the context warning.
GenerateWarningsApproximationFirst(input_tokens, output_tokens, context_limit, tokenizer_name, cache, avail) ==
    LET pct == UtilizationPct(input_tokens + output_tokens, Val(context_limit))
        context_warning ==
            IF HasLimit(context_limit) /\ PctAtLeast(pct, 90)
            THEN <<[kind |-> "High context utilization", pct |-> pct,
                    limit |-> Val(context_limit)]>>
            ELSE <<>>
        c == FactoryCountTokens(cache, "test", tokenizer_name, avail)
    IN  IF ~c.ok
        THEN [ok |-> FALSE, error |-> c.error, cache |-> c.cache]
        ELSE [ok |-> TRUE,
              warnings |->
                  (IF c.approx
                   THEN <<[kind |-> "Tokenizer uses approximation",
                           name |-> tokenizer_name]>>
                   ELSE <<>>) \o context_warning,
              cache |-> c.cache]

\* EstimationService._generate_warnings: the warnings, the dispatcher call
\* it makes and the cache afterwards, or the error of that call.
GenerateWarnings(input_tokens, output_tokens, context_limit, tokenizer_name, cache, avail) ==
    LET pct == UtilizationPct(input_tokens + output_tokens, Val(context_limit))
        context_warning ==
            IF HasLimit(context_limit) /\ PctAtLeast(pct, 90)
            THEN <<[kind |-> "High context utilization", pct |-> pct,
                    limit |-> Val(context_limit)]>>
            ELSE <<>>
        c == FactoryCountTokens(cache, "test", tokenizer_name, avail)
    IN  IF ~c.ok
        THEN [ok |-> FALSE, error |-> c.error, cache |-> c.cache]
        ELSE [ok |-> TRUE,
              warnings |-> context_warning \o
                  (IF c.approx
                   THEN <<[kind |-> "Tokenizer uses approximation",
                           name |-> tokenizer_name]>>
                   ELSE <<>>),
              cache |-> c.cache]

UnknownModel(model) ==
    [type |-> "ValueError", message |-> "Unknown model", model |-> model]

\* The two dispatcher calls estimate makes after counting the input
Probe(pricing_config) == <<"test", pricing_config.tokenizer>>

\* estimate, from the construction of the EstimateResponse on
EstimateResult(request, pricing_config, counted, cost_breakdown, warned, info) ==
    IF ~info.ok
    THEN [ok |-> FALSE, error |-> info.error,
          calls |-> counted.calls \o <<Probe(pricing_config), Probe(pricing_config)>>,
          cache |-> info.cache]
    ELSE [ok |-> TRUE,
          result |->
              [model |-> request.model,
               tokenizer |-> [name |-> pricing_config.tokenizer,
                              approx |-> info.approx],
               input_tokens |-> counted.total_tokens,
               output_tokens |-> request.expected_output_tokens,
               context_limit |-> pricing_config.context,
               context_utilization_pct |->
                   IF HasLimit(pricing_config.context)
                   THEN Some(UtilizationPct(
                            counted.total_tokens + request.expected_output_tokens,
                            Val(pricing_config.context)))
                   ELSE None,
               cost |-> cost_breakdown.model_input_cost
                        + cost_breakdown.model_output_cost
                        + cost_breakdown.embedding_cost
                        + cost_breakdown.vector_io_cost,
               breakdown |-> cost_breakdown,
               warnings |-> warned.warnings],
          calls |-> counted.calls \o <<Probe(pricing_config), Probe(pricing_config)>>,
          cache |-> info.cache]

\* A tokenizer-info step that describes every tokenizer as exact.
EstimateInfoExact(request, pricing_config, counted, cost_breakdown, warned, avail) ==
    IF ~warned.ok
    THEN [ok |-> FALSE, error |-> warned.error,
          calls |-> Append(counted.calls, Probe(pricing_config)),
          cache |-> warned.cache]
    ELSE EstimateResult(request, pricing_config, counted, cost_breakdown, warned,
             [ok |-> TRUE, approx |-> FALSE, cache |-> warned.cache])

\* estimate, from the tokenizer-info call on
EstimateInfo(request, pricing_config, counted, cost_breakdown, warned, avail) ==
    IF ~warned.ok
    THEN [ok |-> FALSE, error |-> warned.error,
          calls |-> Append(counted.calls, Probe(pricing_config)),
          cache |-> warned.cache]
    ELSE EstimateResult(request, pricing_config, counted, cost_breakdown, warned,
             FactoryCountTokens(warned.cache, "test", pricing_config.tokenizer,
                                avail))

\* estimate, from the cost calculation on
EstimateCounted(table, request, pricing_config, counted, avail) ==
    IF ~counted.ok
    THEN [ok |-> FALSE, error |-> counted.error,
          calls |-> counted.calls, cache |-> counted.cache]
    ELSE EstimateInfo(request, pricing_config, counted,
             CalculateCosts(table, counted.total_tokens,
                            request.expected_output_tokens, pricing_config,
                            request.rag),
             GenerateWarnings(counted.total_tokens,
                              request.expected_output_tokens,
                              pricing_config.context, pricing_config.tokenizer,
                              counted.cache, avail),
             avail)

\* estimate, from the token count on
EstimateKnown(table, request, pricing_config, cache, avail) ==
    EstimateCounted(table, request, pricing_config,
        CountInputTokens(request, pricing_config.tokenizer, cache, avail),
        avail)

\* An estimate that answers an unknown model with a zero-value result.
EstimateZeroForUnknown(table, request, cache, avail) ==
    IF IsSome(Get(table, request.model))
    THEN EstimateKnown(table, request, Val(Get(table, request.model)), cache, avail)
    ELSE [ok |-> TRUE,
          result |->
              [model |-> request.model,
               tokenizer |-> [name |-> "cl100k_base", approx |-> FALSE],
               input_tokens |-> 0,
               output_tokens |-> request.expected_output_tokens,
               context_limit |-> None,
               context_utilization_pct |-> None,
               cost |-> 0,
               breakdown |-> [model_input_cost |-> 0, model_output_cost |-> 0,
                              embedding_cost |-> 0, vector_io_cost |-> 0],
               warnings |-> <<>>],
          calls |-> <<>>, cache |-> cache]

\* EstimationService.estimate(request) with self.pricing_configs = table
\* and tokenizer_factory._tokenizers = cache: the EstimateResponse or the
\* error raised, the dispatcher calls made and the cache afterwards.
Estimate(table, request, cache, avail) ==
    IF ~IsSome(Get(table, request.model))
    THEN [ok |-> FALSE, error |-> UnknownModel(request.model),
          calls |-> <<>>, cache |-> cache]
    ELSE EstimateKnown(table, request, Val(Get(table, request.model)), cache, avail)

EmptyTotals ==
    [results |-> <<>>, total_cost |-> 0, total_input_tokens |-> 0,
     total_output_tokens |-> 0]

\* A loop body that adds the totals but overwrites the result list.
AccumulateOverwriting(acc, result) ==
    [results |-> <<result>>,
     total_cost |-> acc.total_cost + result.cost,
     total_input_tokens |-> acc.total_input_tokens + result.input_tokens,
     total_output_tokens |-> acc.total_output_tokens + result.output_tokens]

\* The loop body of estimate_batch after service.estimate(req) returned
\* result: the result appended, the totals added
Accumulate(acc, result) ==
    [results |-> Append(acc.results, result),
     total_cost |-> acc.total_cost + result.cost,
     total_input_tokens |-> acc.total_input_tokens + result.input_tokens,
     total_output_tokens |-> acc.total_output_tokens + result.output_tokens]

RECURSIVE BatchLoop(_, _, _, _, _, _)
RECURSIVE BatchIteration(_, _, _, _, _, _)

\* One iteration of the loop, e being service.estimate(requests[i]): a
\* ValueError leaves the loop and the handler
BatchIteration(table, requests, i, acc, e, avail) ==
    IF ~e.ok
    THEN [ok |-> FALSE, error |-> e.error, cache |-> e.cache]
    ELSE BatchLoop(table, requests, i + 1, Accumulate(acc, e.result),
                   e.cache, avail)

\* The loop of estimate_batch from request i on: the results and running
\* totals, or the error of the first request that raises.
BatchLoop(table, requests, i, acc, cache, avail) ==
    IF i > Len(requests)
    THEN [ok |-> TRUE, acc |-> acc, cache |-> cache]
    ELSE BatchIteration(table, requests, i, acc,
                        Estimate(table, requests[i], cache, avail), avail)

RECURSIVE BatchLoopSkipping(_, _, _, _, _, _)
RECURSIVE BatchIterationSkipping(_, _, _, _, _, _)

\* An iteration that skips a request that raises and goes on with the rest.
BatchIterationSkipping(table, requests, i, acc, e, avail) ==
    BatchLoopSkipping(table, requests, i + 1,
                      IF e.ok THEN Accumulate(acc, e.result) ELSE acc,
                      e.cache, avail)

BatchLoopSkipping(table, requests, i, acc, cache, avail) ==
    IF i > Len(requests)
    THEN [ok |-> TRUE, acc |-> acc, cache |-> cache]
    ELSE BatchIterationSkipping(table, requests, i, acc,
                                Estimate(table, requests[i], cache, avail), avail)

EstimateBatchSkipping(table, requests, cache, avail) ==
    BatchLoopSkipping(table, requests, 1, EmptyTotals, cache, avail)

\* The body of estimate_batch: the BatchEstimateResponse, or the error
EstimateBatch(table, requests, cache, avail) ==
    BatchLoop(table, requests, 1, EmptyTotals, cache, avail)

\* A listing that reports no context window.
ListModelsNoContext(table) ==
    [i \in DOMAIN table |->
        [name |-> table[i].name,
         config |-> [vendor        |-> table[i].config.vendor,
                     context       |-> None,
                     input_per_1k  |-> table[i].config.input_per_1k,
                     output_per_1k |-> table[i].config.output_per_1k,
                     tokenizer     |-> table[i].config.tokenizer,
                     kind          |-> table[i].config.kind]]]

\* PricingLoader.list_models(): the mapping, in the table's order
ListModels(table) ==
    [i \in DOMAIN table |->
        [name |-> table[i].name,
         config |-> [vendor        |-> table[i].config.vendor,
                     context       |-> table[i].config.context,
                     input_per_1k  |-> table[i].config.input_per_1k,
                     output_per_1k |-> table[i].config.output_per_1k,
                     tokenizer     |-> table[i].config.tokenizer,
                     kind          |-> table[i].config.kind]]]

----------------------------------------------------------------------------
(* The pricing sources and requests the environment supplies *)

GptMini ==
    [vendor |-> "openai", context |-> 20, input_per_1k |-> 15,
     output_per_1k |-> 60, tokenizer |-> "o200k_base", kind |-> "chat"]
GptMiniRepriced == [GptMini EXCEPT !.input_per_1k = 30]
\* Records with a context window of zero and below zero: PricingConfig
\* declares context as Optional[int] and validates only the two rates
GptMiniZeroContext == [GptMini EXCEPT !.context = 0]
GptMiniNegativeContext == [GptMini EXCEPT !.context = -20]
EmbSmall ==
    [vendor |-> "openai", input_per_1k |-> 2, tokenizer |-> "cl100k_base",
     kind |-> "embedding"]
EmbLarge ==
    [vendor |-> "openai", input_per_1k |-> 13, tokenizer |-> "cl100k_base",
     kind |-> "embedding"]
Claude ==
    [vendor |-> "anthropic", context |-> 10, input_per_1k |-> 300,
     output_per_1k |-> 1500, tokenizer |-> "anthropic_approx_bpe",
     kind |-> "chat"]

Row(name, config) == [name |-> name, config |-> config]

\* Valid source records
ValidRows ==
    {Row("openai:gpt-4o-mini", GptMini),
     Row("openai:gpt-4o-mini", GptMiniZeroContext),
     Row("openai:gpt-4o-mini", GptMiniNegativeContext),
     Row("openai:text-embedding-3-small", EmbSmall),
     Row("openai:text-embedding-3-large", EmbLarge),
     Row("anthropic:claude-3-5-sonnet", Claude)}

\* Source records that fail validation: a negative rate, or a required
\* field missing
InvalidRows ==
    {Row("openai:gpt-4o-mini", [GptMini EXCEPT !.input_per_1k = -15]),
     Row("openai:gpt-4o-mini", [GptMini EXCEPT !.output_per_1k = -60]),
     Row("openai:text-embedding-3-small",
         [input_per_1k |-> 2, tokenizer |-> "cl100k_base", kind |-> "embedding"]),
     Row("openai:text-embedding-3-small",
         [vendor |-> "openai", tokenizer |-> "cl100k_base", kind |-> "embedding"]),
     Row("openai:text-embedding-3-small",
         [vendor |-> "openai", input_per_1k |-> 2, kind |-> "embedding"]),
     Row("anthropic:claude-3-5-sonnet",
         [vendor |-> "anthropic", input_per_1k |-> 300,
          tokenizer |-> "anthropic_approx_bpe"])}

\* The records a pricing source is made of
SourceRows ==
    {Row("openai:gpt-4o-mini", GptMini),
     Row("openai:gpt-4o-mini", GptMiniRepriced),
     Row("openai:gpt-4o-mini", GptMiniZeroContext),
     Row("openai:text-embedding-3-small", EmbSmall),
     Row("anthropic:claude-3-5-sonnet", Claude)} \cup InvalidRows

SeqsUpTo(S, n) == UNION {[1..k -> S] : k \in 0..n}

\* What a refresh can be served: any mapping of up to MaxSourceLen records
Sources == {data \in SeqsUpTo(SourceRows, MaxSourceLen) : DistinctNames(data)}

\* What the startup load can be served
StartupSources ==
    {<<Row("openai:gpt-4o-mini", GptMini)>>,
     <<Row("openai:text-embedding-3-small", EmbSmall),
       Row("anthropic:claude-3-5-sonnet", Claude)>>,
     <<Row("openai:gpt-4o-mini", [GptMini EXCEPT !.input_per_1k = -15])>>}

\* The tables an estimation service is constructed with
ServiceSources ==
    {data \in SeqsUpTo(ValidRows, MaxTableLen) : DistinctNames(data)}

RequestModels == {row.name : row \in ValidRows} \cup {"unknown:model"}

Request(model, system, user, tools_json, expected_output_tokens, rag) ==
    [model |-> model, system |-> system, user |-> user,
     tools_json |-> tools_json,
     expected_output_tokens |-> expected_output_tokens, rag |-> rag]

Rag(embedding_tokens, num_vectors_read, vector_read_fee_per_1k) ==
    Some([embedding_tokens |-> embedding_tokens,
          num_vectors_read |-> num_vectors_read,
          vector_read_fee_per_1k |-> vector_read_fee_per_1k])

\* RAG sub-requests; RAGConfig validates no range, so negatives are accepted
RagPool ==
    {None, Rag(0, 0, 0), Rag(1000, 0, 0), Rag(1000, 5, 1), Rag(0, 5, 1),
     Rag(-1000, 5, -1)}

\* One request per model, as the lifecycle's reads
ProbeRequests ==
    {Request(m, None, Some("Hi"), None, 3, None) : m \in RequestModels}

\* Every combination of absent, empty and non-empty text fields
TextRequests ==
    {Request(m, s, u, t, 3, None) :
        m \in RequestModels,
        s \in {None, Some(""), Some("Be brief.")},
        u \in {None, Some(""), Some("Hello world")},
        t \in {None, Some(""), Some("{}")}}

\* Every model with every RAG sub-request
RagRequests ==
    {Request(m, None, Some("Hello world"), None, o, r) :
        m \in RequestModels, o \in {0, 250}, r \in RagPool}

\* Requests whose input and output tokens come to 85%, 90% and 95% of a
\* context window of 20 tokens, the user text counting 3 tokens
WindowRequests ==
    {Request(m, None, Some("Hello world"), None, o, None) :
        m \in RequestModels, o \in {14, 15, 16}}

\* Requests with a text the exact encoder rejects
RejectedRequests ==
    {Request(m, None, Some("<|endoftext|>"), None, 3, None) : m \in RequestModels}

Requests ==
    TextRequests \cup RagRequests \cup WindowRequests \cup RejectedRequests

BatchRequests ==
    {Request("openai:gpt-4o-mini", None, Some("Hello world"), None, 250, None),
     Request("anthropic:claude-3-5-sonnet", Some("Be brief."), None, None, 3,
             Rag(1000, 5, 1)),
     Request("unknown:model", None, Some("Hi"), None, 3, None),
     Request("openai:gpt-4o-mini", None, Some("<|endoftext|>"), None, 3, None)}

Batches == SeqsUpTo(BatchRequests, MaxBatch)

AdminApiKey == "change-me"
ApiKeys == {None, Some("change-me"), Some("guess")}

Vocabularies == {"o200k_base", "cl100k_base"}

\* The names the dispatcher is asked for: those of the pricing entries, one
\* more that starts with "o" and ends with "_base", and one it does not know
DispatchNames == TokenizerNames \cup {"o1_base", "unknown_tokenizer"}

\* A text of n characters
RECURSIVE TextOfLen(_)
TextOfLen(n) == IF n = 0 THEN "" ELSE TextOfLen(n - 1) \o "a"

\* The texts handed to the dispatcher: every length up to MaxTextLen, and
\* the text the exact encoder rejects
Texts == {TextOfLen(n) : n \in 0..MaxTextLen} \cup Unencodable

----------------------------------------------------------------------------
(* History: what a table must hold to be the table of a source *)

OptionalFields == {"context", "output_per_1k"}

\* table carries exactly the records of data, in order, field by field
Carries(table, data) ==
    /\ Len(table) = Len(data)
    /\ \A i \in DOMAIN data :
          /\ table[i].name = data[i].name
          /\ \A f \in RequiredFields :
                f \in DOMAIN data[i].config
                /\ table[i].config[f] = data[i].config[f]
          /\ \A f \in OptionalFields :
                table[i].config[f] = Field(data[i].config, f)

\* The tables read so far in this refresh that were not the published one
Observe(table) ==
    IF refresh = "awaiting" /\ ~Carries(table, last_loaded)
    THEN off_snapshot \cup {table}
    ELSE off_snapshot

----------------------------------------------------------------------------
(* Responses *)

Response(op, status, body, input, calls) ==
    [op |-> op, status |-> status, body |-> body, input |-> input,
     calls |-> calls]

NoResponse == Response("none", 0, <<>>, <<>>, <<>>)

\* RefreshResponse of refresh_pricing after load_pricing returned r
RefreshResponse(r) ==
    IF r.ok
    THEN [success |-> TRUE, models_loaded |-> Len(r.pricing_data),
          message |-> "Successfully loaded", error |-> <<>>]
    ELSE [success |-> FALSE, models_loaded |-> 0,
          message |-> "Failed to refresh pricing", error |-> <<r.error>>]

\* PricingLoader.load_pricing() when the fetch or the file read yields
\* fetched: the data, or an I/O error before any validation
LoadPricing(current, fetched) ==
    IF fetched.ok
    THEN ValidateAndStore(current, fetched.data)
    ELSE [ok |-> FALSE, pricing_data |-> current,
          error |-> [type |-> "IOError", message |-> "fetch failed",
                     model |-> "", cause |-> ""]]

Fetched(data) == [ok |-> TRUE, data |-> data]
FetchFailed == [ok |-> FALSE, data |-> <<>>]

----------------------------------------------------------------------------
(* Actions *)

\* lifespan(): the startup load and the construction of the service
Startup(fetched) ==
    /\ phase = "created"
    /\ LET r == LoadPricing(pricing_data, fetched)
       IN  IF r.ok
           THEN /\ phase' = "running"
                /\ pricing_data' = r.pricing_data
                /\ pricing_configs' = r.pricing_data
                /\ last_loaded' = fetched.data
           ELSE /\ phase' = "failed"
                /\ UNCHANGED <<pricing_data, pricing_configs, last_loaded>>
    /\ UNCHANGED <<pricing_url, vocabs, tokenizers, refresh, response,
                   off_snapshot>>

\* A check that accepts any key that is present
VerifyApiKeyAnyPresent(x_api_key) == IsSome(x_api_key)

\* verify_api_key(x_api_key)
VerifyApiKey(x_api_key) == IsSome(x_api_key) /\ Val(x_api_key) = AdminApiKey

\* The event loop is free: no handler is between its call and its response
Free == phase = "running" /\ response = NoResponse

\* The framework sends the handler's response (call_next returns it)
Deliver ==
    /\ response # NoResponse
    /\ response' = NoResponse
    /\ UNCHANGED <<phase, pricing_url, vocabs, pricing_data, pricing_configs,
                   tokenizers, refresh, last_loaded, off_snapshot>>

\* POST /prices/refresh with a missing or wrong key: 401
RefreshRejected(x_api_key) ==
    /\ Free
    /\ ~VerifyApiKey(x_api_key)
    /\ response' = Response("refresh", 401, "Invalid API key", x_api_key, <<>>)
    /\ UNCHANGED <<phase, pricing_url, vocabs, pricing_data, pricing_configs,
                   tokenizers, refresh, last_loaded, off_snapshot>>

\* POST /prices/refresh, pricing from a URL: up to the await of the fetch
RefreshBegin(x_api_key) ==
    /\ Free
    /\ VerifyApiKey(x_api_key)
    /\ pricing_url
    /\ refresh = "idle"
    /\ refresh' = "awaiting"
    /\ off_snapshot' = {}
    /\ UNCHANGED <<phase, pricing_url, vocabs, pricing_data, pricing_configs,
                   tokenizers, response, last_loaded>>

\* The rest of load_pricing and refresh_pricing once load_pricing has fetched
FinishRefresh(fetched) ==
    LET r == LoadPricing(pricing_data, fetched)
    IN  /\ pricing_data' = r.pricing_data
        /\ last_loaded' = IF r.ok THEN fetched.data ELSE last_loaded
        /\ response' = Response("refresh", 200, RefreshResponse(r), fetched, <<>>)
        /\ refresh' = "idle"

\* The fetch returns: validation, the swap and the response, without suspension
FetchReturn(fetched) ==
    /\ Free
    /\ refresh = "awaiting"
    /\ FinishRefresh(fetched)
    /\ UNCHANGED <<phase, pricing_url, vocabs, pricing_configs, tokenizers,
                   off_snapshot>>

\* POST /prices/refresh, pricing from the local file: no suspension point
RefreshFromFile(x_api_key, fetched) ==
    /\ Free
    /\ VerifyApiKey(x_api_key)
    /\ ~pricing_url
    /\ refresh = "idle"
    /\ FinishRefresh(fetched)
    /\ UNCHANGED <<phase, pricing_url, vocabs, pricing_configs, tokenizers,
                   off_snapshot>>

\* The response of estimate_tokens: 200 with the result, 400 on ValueError
EstimateTokensResponse(request, e) ==
    IF e.ok
    THEN Response("estimate", 200, e.result, request, e.calls)
    ELSE Response("estimate", 400, e.error, request, e.calls)

\* POST /estimate/, e being service.estimate(request)
EstimateTokensReturns(request, e) ==
    /\ response' = EstimateTokensResponse(request, e)
    /\ tokenizers' = e.cache
    /\ off_snapshot' = Observe(pricing_configs)
    /\ UNCHANGED <<phase, pricing_url, vocabs, pricing_data, pricing_configs,
                   refresh, last_loaded>>

\* POST /estimate/
EstimateTokens(request) ==
    /\ Free
    /\ EstimateTokensReturns(request,
           Estimate(pricing_configs, request, tokenizers, vocabs))

\* The response of estimate_batch: 200 with results and totals, 400 on
\* ValueError
EstimateBatchResponse(requests, b) ==
    IF b.ok
    THEN Response("batch", 200, b.acc, requests, <<>>)
    ELSE Response("batch", 400, b.error, requests, <<>>)

\* POST /estimate/batch, b being the outcome of the handler's loop
EstimateBatchReturns(requests, b) ==
    /\ response' = EstimateBatchResponse(requests, b)
    /\ tokenizers' = b.cache
    /\ off_snapshot' = Observe(pricing_configs)
    /\ UNCHANGED <<phase, pricing_url, vocabs, pricing_data, pricing_configs,
                   refresh, last_loaded>>

\* POST /estimate/batch
EstimateBatchRoute(requests) ==
    /\ Free
    /\ EstimateBatchReturns(requests,
           EstimateBatch(pricing_configs, requests, tokenizers, vocabs))

\* GET /models/
ListModelsRoute ==
    /\ Free
    /\ response' = Response("models", 200, ListModels(pricing_data), <<>>, <<>>)
    /\ off_snapshot' = Observe(pricing_data)
    /\ UNCHANGED <<phase, pricing_url, vocabs, pricing_data, pricing_configs,
                   tokenizers, refresh, last_loaded>>

\* GET /healthz/
HealthCheck ==
    /\ Free
    /\ response' = Response("healthz", 200,
                            [ok |-> TRUE, models |-> Len(pricing_data)],
                            <<>>, <<>>)
    /\ off_snapshot' = Observe(pricing_data)
    /\ UNCHANGED <<phase, pricing_url, vocabs, pricing_data, pricing_configs,
                   tokenizers, refresh, last_loaded>>

----------------------------------------------------------------------------
(* Specifications *)

\* tokenizer_factory.count_tokens(text, tokenizer_name), called directly:
\* the (count, flag) returned or the ValueError raised
DispatcherCount(text, tokenizer_name) ==
    /\ Free
    /\ LET c == FactoryCountTokens(tokenizers, text, tokenizer_name, vocabs)
       IN  /\ response' =
                  Response("count", 0,
                           IF c.ok
                           THEN [ok |-> TRUE, tokens |-> c.tokens,
                                 approx |-> c.approx]
                           ELSE [ok |-> FALSE, error |-> c.error],
                           [text |-> text, tokenizer_name |-> tokenizer_name],
                           <<>>)
           /\ tokenizers' = c.cache
    /\ UNCHANGED <<phase, pricing_url, vocabs, pricing_data, pricing_configs,
                   refresh, last_loaded, off_snapshot>>

\* The application before lifespan() has run
Init ==
    /\ phase = "created"
    /\ pricing_url \in BOOLEAN
    /\ vocabs = Vocabularies
    /\ pricing_data = <<>>
    /\ pricing_configs = <<>>
    /\ tokenizers = <<>>
    /\ refresh = "idle"
    /\ response = NoResponse
    /\ last_loaded = <<>>
    /\ off_snapshot = {}

StartupStep ==
    \E fetched \in {Fetched(data) : data \in StartupSources} \cup {FetchFailed} :
        Startup(fetched)

RefreshRejectedStep == \E key \in ApiKeys : RefreshRejected(key)

RefreshBeginStep == \E key \in ApiKeys : RefreshBegin(key)

FetchReturnStep ==
    \E fetched \in {Fetched(data) : data \in Sources} \cup {FetchFailed} :
        FetchReturn(fetched)

RefreshFromFileStep ==
    \E key \in ApiKeys :
        \E fetched \in {Fetched(data) : data \in Sources} \cup {FetchFailed} :
            RefreshFromFile(key, fetched)

ProbeStep == \E request \in ProbeRequests : EstimateTokens(request)

Next ==
    \/ StartupStep
    \/ RefreshRejectedStep
    \/ RefreshBeginStep
    \/ FetchReturnStep
    \/ RefreshFromFileStep
    \/ ProbeStep
    \/ ListModelsRoute
    \/ HealthCheck
    \/ Deliver

\* The service lifecycle: startup, refreshes and reads
Spec == Init /\ [][Next]_vars

\* A running service constructed with one table, any vocabularies installed
InitEst ==
    /\ phase = "running"
    /\ pricing_url = FALSE
    /\ vocabs \in SUBSET Vocabularies
    /\ \E data \in ServiceSources :
          /\ pricing_data = ValidateAndStore(<<>>, data).pricing_data
          /\ pricing_configs = pricing_data
          /\ last_loaded = data
    /\ tokenizers = <<>>
    /\ refresh = "idle"
    /\ response = NoResponse
    /\ off_snapshot = {}

EstimateStep == \E request \in Requests : EstimateTokens(request)

BatchStep == \E requests \in Batches : EstimateBatchRoute(requests)

NextEst ==
    \/ EstimateStep
    \/ BatchStep
    \/ Deliver

\* Estimation against a fixed table
SpecEst == InitEst /\ [][NextEst]_vars

\* A dispatcher with nothing cached, in each environment of loadable
\* vocabularies
InitTok ==
    /\ phase = "running"
    /\ pricing_url = FALSE
    /\ vocabs \in SUBSET Vocabularies
    /\ pricing_data = <<>>
    /\ pricing_configs = <<>>
    /\ last_loaded = <<>>
    /\ tokenizers = <<>>
    /\ refresh = "idle"
    /\ response = NoResponse
    /\ off_snapshot = {}

CountStep ==
    \E text \in Texts, tokenizer_name \in DispatchNames :
        DispatcherCount(text, tokenizer_name)

NextTok ==
    \/ CountStep
    \/ Deliver

\* Direct calls of the tokenizer dispatcher
SpecTok == InitTok /\ [][NextTok]_vars

----------------------------------------------------------------------------
(* Claims *)

EstimateReturned == response.op = "estimate"
EstimateSucceeded == response.op = "estimate" /\ response.status = 200
BatchReturned == response.op = "batch"

IsUnknownModelError(body, model) ==
    /\ body.type = "ValueError"
    /\ body.message = "Unknown model"
    /\ body.model = model

\* The fields of an estimation result
ResultFields == {"input_tokens", "output_tokens", "cost", "breakdown", "warnings"}

\* C1: an estimate for a model identifier that is not a key of the service's
\* table fails with the UnknownModel ValueError, surfaced as HTTP 400, and
\* carries no result field: never a zero-value result.
C1_UnknownModelFails ==
    (EstimateReturned /\ response.input.model \notin Names(pricing_configs))
        => /\ response.status = 400
           /\ IsUnknownModelError(response.body, response.input.model)
           /\ DOMAIN response.body \cap ResultFields = {}

\* C1 witness: an unknown model was requested against a non-empty table
C1_Witness ==
    /\ EstimateReturned
    /\ pricing_configs # <<>>
    /\ response.input.model \notin Names(pricing_configs)
    /\ response.input.model # "unknown:model"

\* The record a source holds for a model identifier
SourceRecord(data, name) ==
    (CHOOSE row \in {data[i] : i \in DOMAIN data} : row.name = name).config

\* C2: estimate looks the model up in the current pricing table, the table
\* of the most recent successful load: a model that table lacks yields
\* UnknownModel, and a model it holds is estimated at that table's input
\* rate.
C2_EstimateUsesCurrentTable ==
    EstimateReturned =>
        IF response.input.model \in Names(last_loaded)
        THEN /\ response.status = 200
             /\ response.body.breakdown.model_input_cost =
                    response.body.input_tokens
                    * SourceRecord(last_loaded, response.input.model).input_per_1k
        ELSE /\ response.status = 400
             /\ IsUnknownModelError(response.body, response.input.model)

\* C3: when a refresh completes, every table a read observed while it was in
\* progress was the complete previous table or is the complete table the
\* refresh has just published.
C3_ReadsSeePreviousOrNew ==
    [][(refresh = "awaiting" /\ refresh' = "idle")
           => \A table \in off_snapshot : Carries(table, last_loaded')]_vars

\* A source record with a negative rate or a required field missing
InvalidRecord(raw) ==
    \/ \E f \in RequiredFields : f \notin DOMAIN raw
    \/ raw.input_per_1k < 0
    \/ ("output_per_1k" \in DOMAIN raw /\ raw.output_per_1k < 0)

InvalidAt(data) == {i \in DOMAIN data : InvalidRecord(data[i].config)}

\* A handler that was not running returns the response of a load
LoadReturns == response.op = "none" /\ response'.op = "refresh"
                   /\ response'.status = 200 /\ response'.input.ok

\* C4: a load whose source holds an invalid record (a negative rate, a
\* required field missing) fails with an error naming an invalid model
\* identifier of the source, and leaves the previously loaded table as it
\* was: none of the source's records is stored.
C4_InvalidLoadRejected ==
    [][(LoadReturns /\ InvalidAt(response'.input.data) # {})
           => /\ ~response'.body.success
              /\ \E i \in InvalidAt(response'.input.data) :
                    Val(response'.body.error).model = response'.input.data[i].name
              /\ pricing_data' = pricing_data
              /\ Carries(pricing_data', last_loaded)]_vars

\* C4 witness: a refresh was served a source whose second record is invalid
\* and whose first is valid, over a non-empty table
C4_Witness ==
    /\ response.op = "refresh" /\ response.status = 200 /\ response.input.ok
    /\ InvalidAt(response.input.data) = {2}
    /\ ~response.body.success
    /\ pricing_data # <<>>
    /\ response.input.data[1].name \notin Names(pricing_data)

\* C5: listModels returns one entry per key of the table of the most recent
\* successful load, each carrying that record's vendor, context, rates,
\* tokenizer and kind unchanged, and leaves the table as it was.
C5_ListModelsIsSnapshot ==
    [][(response.op = "none" /\ response'.op = "models")
           => /\ Carries(response'.body, last_loaded)
              /\ {response'.body[i].name : i \in DOMAIN response'.body}
                     = Names(last_loaded)
              /\ pricing_data' = pricing_data]_vars

\* C5 witness: the models were listed after a refresh replaced the startup
\* table by one with a context window and one without
C5_Witness ==
    /\ response.op = "models"
    /\ Len(response.body) = 2
    /\ pricing_data # pricing_configs
    /\ \E i, j \in DOMAIN response.body :
          /\ IsSome(response.body[i].config.context)
          /\ ~IsSome(response.body[j].config.context)

\* What estimate returns for one request against the service's table
Single(request) == Estimate(pricing_configs, request, tokenizers, vocabs)

Known(request) == request.model \in Names(pricing_configs)

RECURSIVE SumOf(_, _, _)
SumOf(results, field, n) ==
    IF n = 0 THEN 0 ELSE results[n][field] + SumOf(results, field, n - 1)

TotalFields == {"results", "total_cost", "total_input_tokens", "total_output_tokens"}

\* C6: a batch of N requests that all name known models and can each be
\* estimated returns 200; the response of such a batch holds N results, the
\* i-th being the estimate of the i-th request, and total_cost,
\* total_input_tokens and total_output_tokens are the sums of those fields
\* over the results (zero for the empty batch).
C6_BatchTotals ==
    (BatchReturned /\ \A i \in DOMAIN response.input : Known(response.input[i]))
        => /\ (\A i \in DOMAIN response.input : Single(response.input[i]).ok)
                  => response.status = 200
           /\ response.status = 200 =>
                 /\ Len(response.body.results) = Len(response.input)
                 /\ \A i \in DOMAIN response.input :
                       response.body.results[i] = Single(response.input[i]).result
                 /\ response.body.total_cost =
                        SumOf(response.body.results, "cost", Len(response.input))
                 /\ response.body.total_input_tokens =
                        SumOf(response.body.results, "input_tokens",
                              Len(response.input))
                 /\ response.body.total_output_tokens =
                        SumOf(response.body.results, "output_tokens",
                              Len(response.input))

\* C6 witness: a batch of two different requests returned two results
C6_Witness ==
    /\ BatchReturned /\ response.status = 200
    /\ Len(response.input) = 2
    /\ response.input[1].model # response.input[2].model
    /\ response.body.results[1].cost # response.body.results[2].cost
    /\ response.body.total_input_tokens > 0

UnknownAt(requests) == {i \in DOMAIN requests : ~Known(requests[i])}
FailingAt(requests) == {i \in DOMAIN requests : ~Single(requests[i]).ok}
First(indices) == CHOOSE i \in indices : \A j \in indices : i <= j

\* C7 as stated: a batch holding a request for an unknown model fails with
\* the UnknownModel error and returns no results or totals.
C7_BatchFailsWithUnknownModel ==
    (BatchReturned /\ UnknownAt(response.input) # {})
        => /\ response.status = 400
           /\ \E i \in UnknownAt(response.input) :
                 IsUnknownModelError(response.body, response.input[i].model)
           /\ DOMAIN response.body \cap TotalFields = {}

\* C7 amended: a batch holding a request for an unknown model fails as a
\* whole with the error of its first failing request, which is the
\* UnknownModel error of the first unknown model unless an earlier request
\* fails, and returns no results or totals.
C7_BatchFailsWhole ==
    (BatchReturned /\ UnknownAt(response.input) # {})
        => /\ response.status = 400
           /\ DOMAIN response.body \cap TotalFields = {}
           /\ response.body =
                  Single(response.input[First(FailingAt(response.input))]).error
           /\ (First(FailingAt(response.input)) = First(UnknownAt(response.input)))
                  => IsUnknownModelError(response.body,
                         response.input[First(UnknownAt(response.input))].model)

\* C7 witness: the unknown model came second, after a request that succeeds
C7_Witness ==
    /\ BatchReturned
    /\ UnknownAt(response.input) = {2}
    /\ Single(response.input[1]).ok
    /\ response.status = 400

\* The entry of the service's table the last estimate was priced with
Entry == Val(Get(pricing_configs, response.input.model))

Absent(text) == text = None \/ text = Some("")

\* The dispatcher's count of one text field under the entry's tokenizer
FieldCount(text) ==
    IF Absent(text)
    THEN 0
    ELSE FactoryCountTokens(tokenizers, Val(text), Entry.tokenizer, vocabs).tokens

\* C8: the input token count is the sum of the dispatcher's counts of the
\* system, user and tools texts under the entry's tokenizer, an absent or
\* empty field counting zero; the dispatcher is invoked on the present
\* fields only (then twice on the probe text), never on an empty text; with
\* all three absent the count is 0.
C8_InputTokenCount ==
    /\ EstimateReturned =>
          \A k \in DOMAIN response.calls : response.calls[k][1] # ""
    /\ EstimateSucceeded =>
          /\ response.body.input_tokens =
                 FieldCount(response.input.system)
                 + FieldCount(response.input.user)
                 + FieldCount(response.input.tools_json)
          /\ response.calls =
                 [k \in 1..Len(SelectSeq(TextFields(response.input),
                                         LAMBDA t : ~Absent(t))) |->
                     <<Val(SelectSeq(TextFields(response.input),
                                     LAMBDA t : ~Absent(t))[k]),
                       Entry.tokenizer>>]
                 \o <<<<"test", Entry.tokenizer>>, <<"test", Entry.tokenizer>>>>
          /\ (\A k \in 1..3 : TextFields(response.input)[k] = None)
                 => response.body.input_tokens = 0

\* C8 witness: an estimate with an empty system text, a user text and a
\* tools text
C8_Witness ==
    /\ EstimateSucceeded
    /\ response.input.system = Some("")
    /\ response.input.user = Some("Hello world")
    /\ response.input.tools_json = Some("{}")
    /\ response.body.input_tokens > FieldCount(response.input.user)

\* The worked example's entry: rates 0.15 and 0.60 per 1k tokens
ExampleEntry ==
    PricingConfig([vendor |-> "openai", context |-> 128000, input_per_1k |-> 15,
                   output_per_1k |-> 60, tokenizer |-> "o200k_base",
                   kind |-> "chat"]).config

ExampleCosts == CalculateCosts(<<>>, 100, 250, ExampleEntry, None)

\* C9: for every successful estimate the model input cost is the input
\* tokens priced at the entry's input rate per 1k, the model output cost is
\* the output tokens priced at the entry's output rate per 1k (0 when the
\* entry has no output rate), and the total cost is the sum of the four
\* breakdown components; rates 0.15/0.60 with 100 input and 250 output
\* tokens and no RAG give 0.015 and 0.15, 0.165 in total (costs are in
\* units of 1/1000 of a rate unit, rates in hundredths of a dollar).
C9_CostFormulas ==
    /\ EstimateSucceeded =>
          /\ response.body.breakdown.model_input_cost =
                 response.body.input_tokens * Entry.input_per_1k
          /\ response.body.breakdown.model_output_cost =
                 IF Entry.output_per_1k = None
                 THEN 0
                 ELSE response.body.output_tokens * Val(Entry.output_per_1k)
          /\ response.body.cost =
                 response.body.breakdown.model_input_cost
                 + response.body.breakdown.model_output_cost
                 + response.body.breakdown.embedding_cost
                 + response.body.breakdown.vector_io_cost
    /\ ExampleCosts.model_input_cost = 1500
    /\ ExampleCosts.model_output_cost = 15000
    /\ ExampleCosts.model_input_cost + ExampleCosts.model_output_cost
           + ExampleCosts.embedding_cost + ExampleCosts.vector_io_cost = 16500

\* C9 witness: an estimate with input, output, embedding and vector costs,
\* all different from zero
C9_Witness ==
    /\ EstimateSucceeded
    /\ response.body.breakdown.model_input_cost > 0
    /\ response.body.breakdown.model_output_cost > 0
    /\ response.body.breakdown.embedding_cost > 0
    /\ response.body.breakdown.vector_io_cost > 0
    /\ response.body.breakdown.model_input_cost
           # response.body.breakdown.model_output_cost

\* C9 witness of the other case: an entry with no output rate
C9_NoOutputRate ==
    /\ EstimateSucceeded
    /\ Entry.output_per_1k = None
    /\ response.body.output_tokens > 0

\* The positions of the table's embedding entries of the primary's vendor
EmbeddingMatches ==
    {i \in DOMAIN pricing_configs :
        /\ pricing_configs[i].config.kind = "embedding"
        /\ pricing_configs[i].config.vendor = Entry.vendor}

\* C10: the embedding cost is non-zero only when the request has a RAG
\* sub-request with an embedding-token count above 0; then it is the
\* embedding tokens priced at the input rate per 1k of the first entry, in
\* table order, of kind "embedding" and of the primary entry's vendor, and
\* 0 when the table has no such entry.
C10_EmbeddingCost ==
    EstimateSucceeded =>
        /\ response.body.breakdown.embedding_cost # 0
               => /\ response.input.rag # None
                  /\ Val(response.input.rag).embedding_tokens > 0
        /\ (response.input.rag # None
            /\ Val(response.input.rag).embedding_tokens > 0)
               => response.body.breakdown.embedding_cost =
                      IF EmbeddingMatches = {}
                      THEN 0
                      ELSE Val(response.input.rag).embedding_tokens
                           * pricing_configs[First(EmbeddingMatches)]
                                 .config.input_per_1k

\* C10 witness: two embedding entries of the primary's vendor at different
\* rates, the primary being the second of them
C10_Witness ==
    /\ EstimateSucceeded
    /\ response.input.rag # None
    /\ Val(response.input.rag).embedding_tokens > 0
    /\ EmbeddingMatches = {1, 2}
    /\ pricing_configs[2].name = response.input.model
    /\ pricing_configs[1].config.input_per_1k
           # pricing_configs[2].config.input_per_1k
    /\ response.body.breakdown.embedding_cost > 0

TotalTokens == response.body.input_tokens + response.body.output_tokens

\* C12: in every estimate result the context-utilization percentage is
\* present exactly when the pricing entry has a context limit; when present
\* it is (input tokens + output tokens) / limit x 100 and the result's
\* context_limit is the entry's limit; when the entry has no limit both are
\* absent.
C12_UtilizationPresentWithLimit ==
    EstimateSucceeded =>
        /\ response.body.context_utilization_pct # None <=> Entry.context # None
        /\ Entry.context # None =>
              /\ response.body.context_limit = Entry.context
              /\ Val(response.body.context_utilization_pct).num
                     = TotalTokens * 100
              /\ Val(response.body.context_utilization_pct).den
                     = Val(Entry.context)
        /\ Entry.context = None =>
              /\ response.body.context_limit = None
              /\ response.body.context_utilization_pct = None

HighUtilization(warning) == warning.kind = "High context utilization"

HighUtilizationWarned(warnings) ==
    \E k \in DOMAIN warnings : HighUtilization(warnings[k])

\* The warnings of a request of input_tokens and output_tokens against an
\* entry with a context limit of 1000 tokens
WarningsOf1000(input_tokens, output_tokens) ==
    GenerateWarnings(input_tokens, output_tokens, Some(1000), "cl100k_base",
                     <<>>, Vocabularies).warnings

\* C13: the warning list holds the 'High context utilization' warning if
\* and only if the entry has a context limit and (input tokens + output
\* tokens) / limit x 100 >= 90; it is present at 900 and at 950 of 1000
\* tokens, absent at 899 of 1000, absent when the entry has no limit; when
\* it is present the result's context_utilization_pct is at least 90.
C13_HighUtilizationWarning ==
    /\ EstimateSucceeded =>
          /\ HighUtilizationWarned(response.body.warnings)
                 <=> /\ Entry.context # None
                     /\ Val(Entry.context) > 0
                     /\ TotalTokens * 100 >= 90 * Val(Entry.context)
          /\ HighUtilizationWarned(response.body.warnings)
                 => /\ response.body.context_utilization_pct # None
                    /\ Val(response.body.context_utilization_pct).den > 0
                    /\ Val(response.body.context_utilization_pct).num
                           >= 90 * Val(response.body.context_utilization_pct).den
    /\ HighUtilizationWarned(WarningsOf1000(850, 50))
    /\ HighUtilizationWarned(WarningsOf1000(850, 100))
    /\ ~HighUtilizationWarned(WarningsOf1000(850, 49))

\* C13 witness: an estimate at exactly 90% of the entry's context window
C13_Witness ==
    /\ EstimateSucceeded
    /\ Entry.context = Some(20)
    /\ TotalTokens = 18
    /\ HighUtilizationWarned(response.body.warnings)

\* C19: every entry of a loaded pricing table has a context window that is
\* absent or a positive integer, and an estimate never has a utilization
\* computed from a limit of zero or below.
C19_ContextWindowPositive ==
    /\ \A i \in DOMAIN pricing_data :
          \/ pricing_data[i].config.context = None
          \/ Val(pricing_data[i].config.context) > 0
    /\ EstimateSucceeded =>
          \/ response.body.context_limit = None
          \/ Val(response.body.context_limit) > 0

ApproximationWarned(warnings) ==
    \E k \in DOMAIN warnings : warnings[k].kind = "Tokenizer uses approximation"

\* The texts of the last estimate's request that were counted
CountedTexts ==
    {Val(TextFields(response.input)[k]) :
        k \in {j \in 1..3 : ~Absent(TextFields(response.input)[j])}}

\* C14: in every estimate result the tokenizer descriptor's name is the
\* entry's tokenizer name; its approximate flag is the flag the dispatcher
\* returns under that name for each text of the request (and for any other
\* text); the approximation warning is in the warning list if and only if
\* that flag is true.
C14_TokenizerDescriptor ==
    EstimateSucceeded =>
        /\ response.body.tokenizer.name = Entry.tokenizer
        /\ \A text \in CountedTexts \cup {"", "Hi"} :
              FactoryCountTokens(tokenizers, text, Entry.tokenizer, vocabs).approx
                  = response.body.tokenizer.approx
        /\ ApproximationWarned(response.body.warnings)
               <=> response.body.tokenizer.approx

\* C14 witness: an estimate under an approximate tokenizer that counted a
\* text and carries the approximation warning after the utilization warning
C14_Witness ==
    /\ EstimateSucceeded
    /\ CountedTexts # {}
    /\ response.body.tokenizer.approx
    /\ Len(response.body.warnings) = 2
    /\ ApproximationWarned(response.body.warnings)

\* C14 witness of the other case: an exact tokenizer and no such warning
C14_ExactWitness ==
    /\ EstimateSucceeded
    /\ CountedTexts # {}
    /\ ~response.body.tokenizer.approx
    /\ ~ApproximationWarned(response.body.warnings)

Counted == response.op = "count"

ApproximateNames == {"anthropic_approx_bpe", "llama_approx_bpe"}

\* max(1, floor(n * den / num)): the count of n characters at num / den
\* characters per token
FloorCount(n, num, den) == IF (n * den) \div num >= 1 THEN (n * den) \div num ELSE 1

\* C15: an approximate tokenizer returns (0, true) for the empty text and
\* (max(1, floor(charCount / ratio)), true) otherwise, so at least 1 token
\* for every non-empty text; the Llama ratio is 3.5 characters per token: 1
\* to 6 characters give 1 token, 7 give 2.
C15_ApproximateCounts ==
    /\ (Counted /\ response.input.tokenizer_name \in ApproximateNames) =>
          /\ response.body.ok
          /\ response.body.approx
          /\ response.input.text = "" => response.body.tokens = 0
          /\ response.input.text # "" => response.body.tokens >= 1
          /\ (response.input.text # ""
              /\ response.input.tokenizer_name = "llama_approx_bpe")
                 => response.body.tokens
                        = FloorCount(Len(response.input.text), 7, 2)
          /\ (response.input.text # ""
              /\ response.input.tokenizer_name = "anthropic_approx_bpe")
                 => \E ratio \in 1..8 :
                        response.body.tokens
                            = FloorCount(Len(response.input.text), ratio, 1)
    /\ \A n \in 1..6 : LlamaCountTokens(TextOfLen(n)).tokens = 1
    /\ LlamaCountTokens(TextOfLen(7)).tokens = 2

\* C15 witness: the Llama tokenizer counted a text of 7 characters as 2 tokens
C15_Witness ==
    /\ Counted
    /\ response.input.tokenizer_name = "llama_approx_bpe"
    /\ Len(response.input.text) = 7
    /\ response.body.tokens = 2

\* C15 witness of the minimum: 3 characters, fewer than one ratio, 1 token
C15_MinimumWitness ==
    /\ Counted
    /\ response.input.tokenizer_name = "llama_approx_bpe"
    /\ Len(response.input.text) = 3
    /\ response.body.tokens = 1

\* The number of tokens the encoder of vocab gives text
ExactCount(vocab, text) == IF text = "" THEN 0 ELSE Encode(vocab, text).len

\* C16: the dispatcher resolves a name by first match: o200k_base and
\* cl100k_base count with the exact encoder of that vocabulary,
\* anthropic_approx_bpe and llama_approx_bpe with that family's approximate
\* strategy, and every other name counts as cl100k_base does, flagged exact.
C16_DispatchByName ==
    Counted =>
        /\ (response.input.tokenizer_name \in {"o200k_base", "cl100k_base"}
            /\ response.body.ok)
               => /\ ~response.body.approx
                  /\ response.body.tokens =
                         ExactCount(response.input.tokenizer_name,
                                    response.input.text)
        /\ response.input.tokenizer_name = "llama_approx_bpe"
               => /\ response.body.ok
                  /\ response.body.approx
                  /\ response.body.tokens =
                         LlamaCountTokens(response.input.text).tokens
        /\ response.input.tokenizer_name = "anthropic_approx_bpe"
               => response.body.ok /\ response.body.approx
        /\ response.input.tokenizer_name \notin TokenizerNames
               => /\ response.body.ok =
                         FactoryCountTokens(<<>>, response.input.text,
                                            "cl100k_base", vocabs).ok
                  /\ response.body.ok
                         => /\ ~response.body.approx
                            /\ response.body.tokens =
                                   ExactCount("cl100k_base", response.input.text)

\* What estimate returns for the last request from a dispatcher that has
\* cached nothing
FreshEstimate == Estimate(pricing_configs, response.input, <<>>, vocabs)

\* C17: estimate is deterministic and history-independent: whatever calls
\* came before and whatever the dispatcher has cached, the result (or the
\* error) of a request against a table is the one a dispatcher with an
\* empty cache gives, warning order included; the table is left as loaded.
C17_EstimateHistoryIndependent ==
    /\ EstimateReturned =>
          /\ response.status = 200
                 => FreshEstimate.ok /\ response.body = FreshEstimate.result
          /\ response.status = 400
                 => ~FreshEstimate.ok /\ response.body = FreshEstimate.error
    /\ Carries(pricing_configs, last_loaded)

\* C17 witness: an estimate with two warnings, made when the dispatcher had
\* already cached the tokenizers of two entries
C17_Witness ==
    /\ EstimateSucceeded
    /\ Cardinality(DOMAIN tokenizers) >= 2
    /\ Len(response.body.warnings) = 2
    /\ response.calls[1][2] # "o200k_base"

\* C18: for every accepted request and every loaded table each of the four
\* components of the cost breakdown (model input, model output, embedding,
\* vector I/O) is non-negative, and so is the total cost.
C18_CostsNonNegative ==
    EstimateSucceeded =>
        /\ response.body.breakdown.model_input_cost >= 0
        /\ response.body.breakdown.model_output_cost >= 0
        /\ response.body.breakdown.embedding_cost >= 0
        /\ response.body.breakdown.vector_io_cost >= 0
        /\ response.body.cost >= 0

ExactNames == {"o200k_base", "cl100k_base"}

\* The last estimate was asked of an entry with an exact tokenizer whose
\* vocabulary cannot be loaded, or for a text the encoder rejects
CannotTokenize ==
    /\ EstimateReturned
    /\ Known(response.input)
    /\ Entry.tokenizer \in ExactNames
    /\ \/ Entry.tokenizer \notin vocabs
       \/ CountedTexts \cap Unencodable # {}

\* The number of tokens the encoder of vocab gives an optional text field
ExactFieldCount(vocab, text) ==
    IF Absent(text) THEN 0 ELSE ExactCount(vocab, Val(text))

\* C20: if the vocabulary of the exact tokenizer the entry names cannot be
\* loaded, or a text cannot be encoded, the estimate fails as a whole with
\* a typed error and no result; an estimate that succeeds under an exact
\* tokenizer counts with the vocabulary the entry names.
C20_TokenizationFailureFailsEstimate ==
    /\ CannotTokenize =>
          /\ response.status = 400
          /\ response.body.type = "ValueError"
          /\ DOMAIN response.body \cap ResultFields = {}
    /\ (EstimateSucceeded /\ Entry.tokenizer \in ExactNames) =>
          response.body.input_tokens =
              ExactFieldCount(Entry.tokenizer, response.input.system)
              + ExactFieldCount(Entry.tokenizer, response.input.user)
              + ExactFieldCount(Entry.tokenizer, response.input.tools_json)

WarningKinds(warnings) == [k \in DOMAIN warnings |-> warnings[k].kind]

\* The four shapes of a warning list, by kind
WarningShapes ==
    {<<>>,
     <<"High context utilization">>,
     <<"Tokenizer uses approximation">>,
     <<"High context utilization", "Tokenizer uses approximation">>}

\* C21: the warning list of every estimate is empty, the context warning
\* alone, the approximation warning alone, or the context warning followed
\* by the approximation warning; no warning appears twice.
C21_WarningOrder ==
    EstimateSucceeded =>
        /\ WarningKinds(response.body.warnings) \in WarningShapes
        /\ (HighUtilizationWarned(response.body.warnings)
            /\ ApproximationWarned(response.body.warnings))
               => /\ HighUtilization(response.body.warnings[1])
                  /\ response.body.warnings[2].kind
                         = "Tokenizer uses approximation"

\* C21 witness: an estimate to which both warnings apply
C21_Witness ==
    /\ EstimateSucceeded
    /\ HighUtilizationWarned(response.body.warnings)
    /\ ApproximationWarned(response.body.warnings)
    /\ WarningKinds(response.body.warnings)
           = <<"High context utilization", "Tokenizer uses approximation">>

\* The (count, approximate) pair or the error of a dispatcher call
CountOutcome(c) ==
    IF c.ok
    THEN [ok |-> TRUE, tokens |-> c.tokens, approx |-> c.approx]
    ELSE [ok |-> FALSE, error |-> c.error]

\* The call answered by response resolved its tokenizer name: it returned
\* a pair, or it failed only in encoding the text
Resolved(r) == r.body.ok \/ r.body.error.message = "Tokenization failed"

\* C22: the dispatcher memoizes instances by tokenizer name: a cached
\* instance is never replaced or evicted; a call adds the instance of its
\* name to the cache exactly when it resolves the name and the name is not
\* cached yet, so the cache holds one instance per name resolved so far; a
\* cached name is answered by its cached instance; counting the same text
\* under the same name again gives the same (count, approximate) pair.
C22_DispatcherMemoizes ==
    [][/\ \A name \in DOMAIN tokenizers :
             /\ name \in DOMAIN tokenizers'
             /\ tokenizers'[name] = tokenizers[name]
       /\ (response.op = "none" /\ response'.op = "count") =>
             /\ DOMAIN tokenizers' =
                    DOMAIN tokenizers
                    \cup (IF Resolved(response')
                          THEN {response'.input.tokenizer_name}
                          ELSE {})
             /\ response'.input.tokenizer_name \in DOMAIN tokenizers
                    => response'.body =
                           CountOutcome(TokenizerCountTokens(
                               tokenizers[response'.input.tokenizer_name],
                               response'.input.text))
             /\ response'.body =
                    CountOutcome(FactoryCountTokens(
                        tokenizers', response'.input.text,
                        response'.input.tokenizer_name, vocabs'))]_vars

\* C22 witness: a count answered when every name the dispatcher is asked
\* for is cached
C22_Witness ==
    /\ Counted
    /\ response.body.ok
    /\ DOMAIN tokenizers = DispatchNames

\* The keys a refresh request is rejected for: no header, or another key
WrongKeys == {key \in ApiKeys : Absent(key) \/ Val(key) # AdminApiKey}

\* This step is POST /prices/refresh carrying x_api_key
RefreshRequest(x_api_key) ==
    \/ RefreshRejected(x_api_key)
    \/ RefreshBegin(x_api_key)
    \/ \E fetched \in {Fetched(data) : data \in Sources} \cup {FetchFailed} :
          RefreshFromFile(x_api_key, fetched)

\* This step answers 401 and invokes no load
RejectedUnloaded ==
    /\ response'.op = "refresh"
    /\ response'.status = 401
    /\ UNCHANGED <<pricing_data, pricing_configs, refresh, last_loaded,
                   off_snapshot>>

\* C23: a refresh request whose key is missing or differs from the admin
\* key is answered 401 and leaves the pricing table and the loader
\* untouched; a 401 is given only to such a key; a step that starts a load
\* (the fetch begins, or the file is loaded and answered) is never the
\* request of such a key.
C23_RefreshRequiresKey ==
    [][/\ \A key \in WrongKeys : RefreshRequest(key) => RejectedUnloaded
       /\ (response = NoResponse /\ response'.op = "refresh"
               /\ response'.status = 401)
              => response'.input \in WrongKeys /\ RejectedUnloaded
       /\ (refresh = "idle"
               /\ (refresh' = "awaiting"
                      \/ (response'.op = "refresh" /\ response'.status = 200)))
              => /\ RefreshRequest(Some(AdminApiKey))
                 /\ \A key \in WrongKeys : ~RefreshRequest(key)]_vars

\* C23 witness: after a refresh with the matching key has replaced the
\* table, a request with another key is answered 401
C23_Witness ==
    /\ response.op = "refresh"
    /\ response.status = 401
    /\ response.input = Some("guess")
    /\ pricing_data # pricing_configs
    /\ pricing_data # <<>>

====
